---------------------------- MODULE Spec2Model ----------------------------
(***************************************************************************)
(* The search engine of game-solver: negamax with alpha-beta pruning and   *)
(* a transposition table, its null-window driver solve, the move           *)
(* evaluators move_scores / par_move_scores (src/src/lib.rs), and the      *)
(* default one-ply lookahead, upper_bound and score_to_outcome of the Game *)
(* trait (src/crates/game-solver/src/game.rs).                             *)
(*                                                                         *)
(* The engine is generic over a Game.  The games it is run on here are a   *)
(* family of two-heap take-away games: a move removes k tokens (k in the   *)
(* game's set `takes`) from one heap; the player who cannot move has lost  *)
(* (Normal play), except that with the game's `tie` rule a position in     *)
(* which tokens remain but no move is legal is a draw.                     *)
(***************************************************************************)
EXTENDS Integers, Sequences, FiniteSets, TLC

VARIABLES
    game,      \* the rules of the game being solved (fixed along a behaviour)
    table,     \* the transposition table: a set of [pos, kind, v], one per pos
    nsolves,   \* how many top-level calls the caller has made so far
    last,      \* <<>> or <<[pos, r, fresh, warm]>>: the last finished solve
    scores,    \* <<>> or <<[pos, pairs]>>: what the last move_scores yielded
    stack,     \* per worker: its call stack, a sequence of frames (top = last)
    ret,       \* per worker: <<>> or <<r>>, the value the callee just returned
    out,       \* per worker: <<>> or <<[ok, score]>>, what the task yielded for its move
    returned,  \* per worker: <<>> or <<[pos, a0, b0, r]>>, the last negamax return
    flipped,   \* an insert has replaced an entry of the other kind
    failed,    \* per worker: a move application returned Err during its search
    root,      \* the position par_move_scores was called on
    firg       \* the state of one find_immediately_resolvable_game call

vars == <<game, table, nsolves, last, scores, stack, ret, out,
          returned, flipped, failed, root, firg>>

-----------------------------------------------------------------------------
(* Bounds of the model. *)

MaxTokens == 3
MaxSolves == 2
ParHeap == 5
MaxKids == 3

-----------------------------------------------------------------------------
(* The games.  A position is [heaps, mc]; the rules are in `game`. *)

Pos(a, b, n) == [heaps |-> <<a, b>>, mc |-> n]

Tokens(p) == p.heaps[1] + p.heaps[2]

\* How many tokens a move may take, in some game of the family.
TakeSizes == {1, 2}

NTakes == Cardinality(TakeSizes)

\* Every move a game of the family can enumerate, heap by heap, small takes first.
AllMoves == [n \in 1..(2 * NTakes) |->
                [heap |-> ((n - 1) \div NTakes) + 1, k |-> ((n - 1) % NTakes) + 1]]

Legal(p, m) == m.k \in game.takes /\ m.k <= p.heaps[m.heap]

\* A game with `overtake` also enumerates takes larger than the heap, which
\* make_move then rejects.
Offered(p, m) ==
    \/ Legal(p, m)
    \/ game.overtake /\ m.k \in game.takes /\ p.heaps[m.heap] > 0

Reverse(s) == [i \in 1..Len(s) |-> s[Len(s) + 1 - i]]

possible_moves(p) ==
    LET ms == SelectSeq(AllMoves, LAMBDA m : Offered(p, m))
    IN  IF game.rev THEN Reverse(ms) ELSE ms

\* The board a move leaves, legal or not (an over-take empties the heap).
Applied(p, m) ==
    [heaps |-> [p.heaps EXCEPT ![m.heap] = IF @ >= m.k THEN @ - m.k ELSE 0],
     mc |-> p.mc + 1]

\* make_move: Ok and the board is changed, or Err(MoveError) and it is not.
make_move(p, m) ==
    IF Legal(p, m) THEN [ok |-> TRUE, board |-> Applied(p, m)]
    ELSE [ok |-> FALSE, board |-> p]

NoMoves(p) == \A i \in 1..Len(AllMoves) : ~Legal(p, AllMoves[i])

is_draw(p) == game.tie /\ NoMoves(p) /\ Tokens(p) > 0

is_winning_move(p, m) ==
    LET c == Applied(p, m) IN NoMoves(c) /\ ~is_draw(c)

max_moves == game.max_moves

upper_bound == max_moves

max_score == upper_bound

min_score == 0 - upper_bound

score(p) == max_score - p.mc

\* The players of a zero-sum game, by the parity of the move count.
player(p) == IF p.mc % 2 = 0 THEN "One" ELSE "Two"

previous(pl) == IF pl = "One" THEN "Two" ELSE "One"

\* StateType::Normal.state, with the family's custom tie check in front.
state(p) ==
    IF is_draw(p) THEN [tag |-> "Tie", winner |-> "-"]
    ELSE IF NoMoves(p) THEN [tag |-> "Win", winner |-> previous(player(p))]
    ELSE [tag |-> "Playable", winner |-> "-"]

\* score_to_outcome with a score of 0 taken for a win.
score_to_outcome_ZeroWins(p, s) ==
    IF s >= 0 THEN [tag |-> "Win", n |-> (0 - s) + upper_bound - p.mc]
    ELSE [tag |-> "Loss", n |-> s + upper_bound - p.mc]

\* score_to_outcome.  The move counts are cast to usize in the code; a score
\* that solve returns at p leaves them at or above zero, where the cast
\* changes nothing.
score_to_outcome(p, s) ==
    IF s > 0 THEN [tag |-> "Win", n |-> (0 - s) + upper_bound - p.mc]
    ELSE IF s = 0 THEN [tag |-> "Tie", n |-> 0]
    ELSE [tag |-> "Loss", n |-> s + upper_bound - p.mc]

\* Every position of the game: those reachable from its first position.
RECURSIVE Descendants(_)
Descendants(p) ==
    {p} \cup UNION { Descendants(Applied(p, AllMoves[i])) :
                       i \in {j \in 1..Len(AllMoves) : Legal(p, AllMoves[j])} }

Positions == Descendants(game.first)

Rules(a, b, T, t, s, r, o) ==
    [first |-> Pos(a, b, 0), takes |-> T, tie |-> t, max_moves |-> a + b + s,
     rev |-> r, overtake |-> o]

\* max_moves is the number of tokens, or one more.
Slacks == {0, 1}

\* The games that start from one of the heap pairs R.
GamesFrom(R) ==
    { Rules(h[1], h[2], T, t, s, r, FALSE) :
        h \in R, T \in (SUBSET TakeSizes) \ {{}},
        t \in BOOLEAN, s \in Slacks, r \in BOOLEAN }

\* The first positions: the two-heap positions of up to three tokens and
\* the single heaps of up to MaxTokens tokens.
Roots == {<<1, 1>>, <<2, 1>>, <<1, 2>>} \cup { <<h, 0>> : h \in 1..MaxTokens }

Games == GamesFrom(Roots)

-----------------------------------------------------------------------------
(* The transposition table. *)

EmptyTable == {}

UpperBound(v) == [kind |-> "UpperBound", v |-> v]

LowerBound(v) == [kind |-> "LowerBound", v |-> v]

Has(tt, p) == \E e \in tt : e.pos = p

\* get(game).unwrap_or_else(|| UpperBound(max_score))
Get(tt, p) ==
    IF Has(tt, p)
    THEN LET e == CHOOSE e \in tt : e.pos = p IN [kind |-> e.kind, v |-> e.v]
    ELSE UpperBound(max_score)

Insert(tt, p, b) ==
    {e \in tt : e.pos # p} \cup {[pos |-> p, kind |-> b.kind, v |-> b.v]}

-----------------------------------------------------------------------------
(* negamax, as one call. *)

HasWinningMove(p) ==
    LET ms == possible_moves(p) IN \E i \in 1..Len(ms) : is_winning_move(p, ms[i])

FirstWinningMove(p) ==
    LET ms == possible_moves(p)
        i == CHOOSE i \in 1..Len(ms) :
                /\ is_winning_move(p, ms[i])
                /\ \A j \in 1..(i - 1) : ~is_winning_move(p, ms[j])
    IN  ms[i]

\* The shortcut with the score taken before the move is made.
WinningScore_Unmoved(p) == score(p)

\* The winning-move shortcut: the board is cloned, the move made (its Result
\* dropped) and the board's score returned.
WinningScore(p) == score(make_move(p, FirstWinningMove(p)).board)

\* The probe of the table: the window tightened by the stored bound, and the
\* value returned at once when the window closes.
Probe(tt, p, alpha, beta) ==
    LET e == Get(tt, p) IN
    IF e.kind = "UpperBound"
    THEN IF beta > e.v
         THEN [cut |-> alpha >= e.v, r |-> e.v, alpha |-> alpha, beta |-> e.v]
         ELSE [cut |-> FALSE, r |-> 0, alpha |-> alpha, beta |-> beta]
    ELSE IF alpha < e.v
         THEN [cut |-> e.v >= beta, r |-> e.v, alpha |-> e.v, beta |-> beta]
         ELSE [cut |-> FALSE, r |-> 0, alpha |-> alpha, beta |-> beta]

\* The window a child is first searched with: the full one for the first
\* child, a null window for the others.
ChildWindow(first_child, alpha, beta) ==
    IF first_child THEN [alpha |-> 0 - beta, beta |-> 0 - alpha]
    ELSE [alpha |-> (0 - alpha) - 1, beta |-> 0 - alpha]

FullWindow(alpha, beta) == [alpha |-> 0 - beta, beta |-> 0 - alpha]

\* Whether a null-window probe's score asks for the full-window search.
NeedsResearch(first_child, sc, alpha) == ~first_child /\ sc > alpha

\* The cutoff taken one score early.
Cutoff_Early(sc, beta) == sc >= beta - 1

Cutoff(sc, beta) == sc >= beta

\* The cutoff stored one above the score that caused it.
CutoffEntry_Beyond(sc) == LowerBound(sc + 1)

CutoffEntry(sc) == LowerBound(sc)

\* The bound after the loop stored as a lower bound.
FinalEntry_AsLower(alpha) == LowerBound(alpha)

FinalEntry(alpha) == UpperBound(alpha)

RaiseAlpha(sc, alpha) == IF sc > alpha THEN sc ELSE alpha

RECURSIVE negamax(_, _, _, _), Children(_, _, _, _, _)
negamax(p, tt, alpha, beta) ==
    IF is_draw(p) THEN [r |-> 0, tt |-> tt]
    ELSE IF HasWinningMove(p) THEN [r |-> WinningScore(p), tt |-> tt]
    ELSE LET pr == Probe(tt, p, alpha, beta) IN
         IF pr.cut THEN [r |-> pr.r, tt |-> tt]
         ELSE Children(p, tt, pr.alpha, pr.beta, 1)

Children(p, tt, alpha, beta, i) ==
    LET ms == possible_moves(p) IN
    IF i > Len(ms)
    THEN [r |-> alpha, tt |-> Insert(tt, p, FinalEntry(alpha))]
    ELSE LET board == make_move(p, ms[i]).board
             w == ChildWindow(i = 1, alpha, beta)
             s1 == negamax(board, tt, w.alpha, w.beta)
             fw == FullWindow(alpha, beta)
             s2 == IF NeedsResearch(i = 1, 0 - s1.r, alpha)
                   THEN negamax(board, s1.tt, fw.alpha, fw.beta)
                   ELSE s1
             sc == 0 - s2.r
         IN  IF Cutoff(sc, beta)
             THEN [r |-> beta, tt |-> Insert(s2.tt, p, CutoffEntry(sc))]
             ELSE Children(p, s2.tt, RaiseAlpha(sc, alpha), beta, i + 1)

-----------------------------------------------------------------------------
(* solve and move_scores, as one call each. *)

\* The midpoint rounded up instead of down.
Med_RoundedUp(alpha, beta) == alpha + ((beta - alpha + 1) \div 2)

Med(alpha, beta) == alpha + ((beta - alpha) \div 2)

\* One turn of solve's loop on negamax's result r.
Narrow(alpha, beta, med, r) ==
    IF r <= med THEN [alpha |-> alpha, beta |-> r]
    ELSE [alpha |-> r, beta |-> beta]

RECURSIVE SolveLoop(_, _, _, _)
SolveLoop(p, tt, alpha, beta) ==
    IF alpha < beta
    THEN LET med == Med(alpha, beta)
             s == negamax(p, tt, med, med + 1)
             w == Narrow(alpha, beta, med, s.r)
         IN  SolveLoop(p, s.tt, w.alpha, w.beta)
    ELSE [r |-> alpha, tt |-> tt]

\* The range started one below min_score.
SolveWindow_Low == [alpha |-> min_score - 1, beta |-> max_score + 1]

\* The range solve starts from: [min_score, max_score + 1).
SolveWindow == [alpha |-> min_score, beta |-> max_score + 1]

solve(p, tt) == SolveLoop(p, tt, SolveWindow.alpha, SolveWindow.beta)

\* The score move_scores pairs with a move: the child's, negated.
MoveScore(r) == 0 - r

RECURSIVE MoveScoresFrom(_, _, _, _)
MoveScoresFrom(p, tt, i, acc) ==
    LET ms == possible_moves(p) IN
    IF i > Len(ms) THEN [pairs |-> acc, tt |-> tt]
    ELSE LET s == solve(make_move(p, ms[i]).board, tt)
         IN  MoveScoresFrom(p, s.tt, i + 1,
                            acc \cup {[m |-> ms[i], score |-> MoveScore(s.r)]})

move_scores(p, tt) == MoveScoresFrom(p, tt, 1, {})

-----------------------------------------------------------------------------
(* The caller: top-level calls on one table it owns. *)

Idle == [w \in {} |-> <<>>]

InitCaller ==
    /\ table = EmptyTable
    /\ nsolves = 0
    /\ last = <<>>
    /\ scores = <<>>
    /\ stack = Idle /\ ret = Idle /\ out = Idle /\ returned = Idle /\ failed = Idle
    /\ flipped = FALSE
    /\ root = <<>>
    /\ firg = <<>>

Init ==
    /\ game \in Games
    /\ InitCaller

Solve(p) ==
    /\ nsolves < MaxSolves
    /\ LET s == solve(p, table) IN
        /\ table' = s.tt
        /\ last' = <<[pos |-> p, r |-> s.r, fresh |-> table = EmptyTable,
                      warm |-> \E e \in table : e.pos # p /\ e.pos \in Descendants(p)]>>
    /\ nsolves' = nsolves + 1
    /\ UNCHANGED <<game, scores, stack, ret, out, returned, flipped, failed, root, firg>>

MoveScores(p) ==
    /\ nsolves < MaxSolves
    /\ LET s == move_scores(p, table) IN
        /\ table' = s.tt
        /\ scores' = <<[pos |-> p, pairs |-> s.pairs]>>
    /\ nsolves' = nsolves + 1
    /\ UNCHANGED <<game, last, stack, ret, out, returned, flipped, failed, root, firg>>

\* The caller drops its table and goes on with a new one.
NewTable ==
    /\ table # EmptyTable
    /\ nsolves < MaxSolves
    /\ table' = EmptyTable
    /\ UNCHANGED <<game, nsolves, last, scores, stack, ret, out,
                   returned, flipped, failed, root, firg>>

Next ==
    \/ \E p \in Positions : Solve(p)
    \/ \E p \in Positions : MoveScores(p)
    \/ NewTable

Spec == Init /\ [][Next]_vars

-----------------------------------------------------------------------------
(* The same code step by step, one stack of frames per worker, for the     *)
(* workers of par_move_scores: each step reads or writes the shared table  *)
(* at most once (one get on entering negamax, one insert on leaving it).   *)

\* The pair's score left as solve returned it.
ParMoveScore_Unnegated(r) == r

\* The score par_move_scores pairs with a move: the child's, negated.
ParMoveScore(r) == 0 - r

SolveFrame(p) ==
    [fn |-> "solve", pos |-> p, alpha |-> SolveWindow.alpha,
     beta |-> SolveWindow.beta, pc |-> "loop", i |-> 0,
     a0 |-> SolveWindow.alpha, b0 |-> SolveWindow.beta]

NegamaxFrame(p, alpha, beta) ==
    [fn |-> "negamax", pos |-> p, alpha |-> alpha, beta |-> beta,
     pc |-> "enter", i |-> 1, a0 |-> alpha, b0 |-> beta]

Top(w) == stack[w][Len(stack[w])]

Pop(stk) == SubSeq(stk, 1, Len(stk) - 1)

SetTop(stk, f) == [stk EXCEPT ![Len(stk)] = f]

Running(w, fn, pcs) ==
    /\ stack[w] # <<>>
    /\ Top(w).fn = fn
    /\ Top(w).pc \in pcs

\* negamax returns r to its caller, leaving the table as tt.
NmReturn(w, r, tt, err) ==
    /\ stack' = [stack EXCEPT ![w] = Pop(@)]
    /\ ret' = [ret EXCEPT ![w] = <<r>>]
    /\ returned' = [returned EXCEPT ![w] =
                      <<[pos |-> Top(w).pos, a0 |-> Top(w).a0, b0 |-> Top(w).b0,
                         r |-> r]>>]
    /\ table' = tt
    /\ flipped' = (flipped \/ \E e \in table, n \in tt :
                                 e.pos = n.pos /\ e.kind # n.kind)
    /\ failed' = [failed EXCEPT ![w] = @ \/ err]

\* negamax calls itself on a child.
NmCall(w, pc, alpha, child, win, err) ==
    /\ stack' = [stack EXCEPT ![w] =
                   Append(SetTop(@, [Top(w) EXCEPT !.pc = pc, !.alpha = alpha]),
                          NegamaxFrame(child, win.alpha, win.beta))]
    /\ ret' = [ret EXCEPT ![w] = <<>>]
    /\ failed' = [failed EXCEPT ![w] = @ \/ err]
    /\ UNCHANGED <<table, returned, flipped>>

\* par_move_scores: the task of the w-th move clones the board, makes the
\* move and calls solve on the shared map.
ParStart(w) ==
    /\ stack[w] = <<>> /\ ret[w] = <<>> /\ out[w] = <<>>
    /\ LET mv == make_move(root, possible_moves(root)[w]) IN
        /\ stack' = [stack EXCEPT ![w] = <<SolveFrame(mv.board)>>]
        /\ failed' = [failed EXCEPT ![w] = ~mv.ok]
    /\ UNCHANGED <<game, table, nsolves, last, scores, ret, out, returned, flipped, root, firg>>

\* solve's loop test: another call of negamax, or the return of alpha.
SolveTurn(w) ==
    /\ Running(w, "solve", {"loop"})
    /\ LET f == Top(w) IN
        IF f.alpha < f.beta
        THEN /\ stack' = [stack EXCEPT ![w] =
                  Append(SetTop(@, [f EXCEPT !.pc = "call"]),
                         NegamaxFrame(f.pos, Med(f.alpha, f.beta),
                                      Med(f.alpha, f.beta) + 1))]
             /\ ret' = ret
        ELSE /\ stack' = [stack EXCEPT ![w] = Pop(@)]
             /\ ret' = [ret EXCEPT ![w] = <<f.alpha>>]
    /\ UNCHANGED <<game, table, nsolves, last, scores, out, returned, flipped, failed,
                   root, firg>>

\* par_move_scores: the task pairs its move with solve's result, negated.
ParCollect(w) ==
    /\ stack[w] = <<>> /\ ret[w] # <<>> /\ out[w] = <<>>
    /\ out' = [out EXCEPT ![w] = <<[ok |-> TRUE, score |-> ParMoveScore(ret[w][1])]>>]
    /\ UNCHANGED <<game, table, nsolves, last, scores, stack, ret, returned, flipped,
                   failed, root, firg>>

\* solve takes negamax's result and narrows its range.
SolveRecv(w) ==
    /\ Running(w, "solve", {"call"})
    /\ ret[w] # <<>>
    /\ LET f == Top(w)
           n == Narrow(f.alpha, f.beta, Med(f.alpha, f.beta), ret[w][1])
       IN  stack' = [stack EXCEPT ![w] =
                SetTop(@, [f EXCEPT !.pc = "loop", !.alpha = n.alpha, !.beta = n.beta,
                                    !.i = 1, !.a0 = f.alpha, !.b0 = f.beta])]
    /\ ret' = [ret EXCEPT ![w] = <<>>]
    /\ UNCHANGED <<game, table, nsolves, last, scores, out, returned, flipped, failed, root, firg>>

\* negamax up to its loop: the draw test, the winning-move shortcut and the
\* probe of the table.
NmEnter(w) ==
    /\ Running(w, "negamax", {"enter"})
    /\ LET f == Top(w)
           p == f.pos
           pr == Probe(table, p, f.alpha, f.beta)
       IN  IF is_draw(p) THEN NmReturn(w, 0, table, FALSE)
           ELSE IF HasWinningMove(p)
           THEN NmReturn(w, WinningScore(p), table,
                         ~make_move(p, FirstWinningMove(p)).ok)
           ELSE IF pr.cut THEN NmReturn(w, pr.r, table, FALSE)
           ELSE /\ stack' = [stack EXCEPT ![w] =
                      SetTop(@, [f EXCEPT !.pc = "loop", !.alpha = pr.alpha,
                                          !.beta = pr.beta])]
                /\ UNCHANGED <<table, ret, returned, flipped, failed>>
    /\ UNCHANGED <<game, nsolves, last, scores, out, root, firg>>

\* The head of negamax's loop: the next child is searched, or, after the last,
\* the upper bound is stored and alpha returned.
NmNext(w) ==
    /\ Running(w, "negamax", {"loop"})
    /\ LET f == Top(w)
           ms == possible_moves(f.pos)
       IN  IF f.i > Len(ms)
           THEN NmReturn(w, f.alpha, Insert(table, f.pos, FinalEntry(f.alpha)), FALSE)
           ELSE LET mv == make_move(f.pos, ms[f.i]) IN
                NmCall(w, IF f.i = 1 THEN "first" ELSE "null", f.alpha, mv.board,
                       ChildWindow(f.i = 1, f.alpha, f.beta), ~mv.ok)
    /\ UNCHANGED <<game, nsolves, last, scores, out, root, firg>>

\* negamax takes a child's result: the full-window search after a null-window
\* probe, the cutoff, or the next turn of the loop.
NmRecv(w) ==
    /\ Running(w, "negamax", {"first", "null", "full"})
    /\ ret[w] # <<>>
    /\ LET f == Top(w)
           sc == 0 - ret[w][1]
           board == make_move(f.pos, possible_moves(f.pos)[f.i]).board
       IN  IF f.pc = "null" /\ NeedsResearch(f.i = 1, sc, f.alpha)
           THEN NmCall(w, "full", f.alpha, board, FullWindow(f.alpha, f.beta), FALSE)
           ELSE IF Cutoff(sc, f.beta)
           THEN NmReturn(w, f.beta, Insert(table, f.pos, CutoffEntry(sc)), FALSE)
           ELSE /\ stack' = [stack EXCEPT ![w] =
                      SetTop(@, [f EXCEPT !.pc = "loop", !.i = f.i + 1,
                                          !.alpha = RaiseAlpha(sc, f.alpha)])]
                /\ ret' = [ret EXCEPT ![w] = <<>>]
                /\ UNCHANGED <<table, returned, flipped, failed>>
    /\ UNCHANGED <<game, nsolves, last, scores, out, root, firg>>

Step(w) ==
    \/ ParStart(w)
    \/ SolveTurn(w)
    \/ SolveRecv(w)
    \/ NmEnter(w)
    \/ NmNext(w)
    \/ NmRecv(w)
    \/ ParCollect(w)

Workers == DOMAIN stack

NextPar ==
    \/ \E w \in Workers : ParStart(w)
    \/ \E w \in Workers : SolveTurn(w)
    \/ \E w \in Workers : SolveRecv(w)
    \/ \E w \in Workers : NmEnter(w)
    \/ \E w \in Workers : NmNext(w)
    \/ \E w \in Workers : NmRecv(w)
    \/ \E w \in Workers : ParCollect(w)

\* par_move_scores_with_hasher up to its parallel map: the moves are
\* collected and a new, empty map is made.
ParCall(p) ==
    LET W == 1..Len(possible_moves(p)) IN
    /\ root = p
    /\ table = EmptyTable
    /\ stack = [w \in W |-> <<>>]
    /\ ret = [w \in W |-> <<>>]
    /\ out = [w \in W |-> <<>>]
    /\ returned = [w \in W |-> <<>>]
    /\ failed = [w \in W |-> FALSE]
    /\ flipped = FALSE
    /\ nsolves = 0 /\ last = <<>> /\ scores = <<>> /\ firg = <<>>

\* par_move_scores is called on the two-heap positions of up to three tokens
\* and on single heaps of up to ParHeap tokens.
ParRoots == {<<1, 1>>, <<2, 1>>, <<1, 2>>} \cup { <<h, 0>> : h \in 1..ParHeap }

ParGames == GamesFrom(ParRoots)

InitPar ==
    /\ game \in ParGames
    /\ ParCall(game.first)

SpecPar == InitPar /\ [][NextPar]_vars

\* One call of solve, on any position of the game and an empty table.
InitSolve ==
    /\ game \in Games
    /\ \E p \in Positions :
        /\ root = p
        /\ stack = [w \in {1} |-> <<SolveFrame(p)>>]
    /\ table = EmptyTable
    /\ ret = [w \in {1} |-> <<>>]
    /\ out = [w \in {1} |-> <<>>]
    /\ returned = [w \in {1} |-> <<>>]
    /\ failed = [w \in {1} |-> FALSE]
    /\ flipped = FALSE
    /\ nsolves = 0 /\ last = <<>> /\ scores = <<>> /\ firg = <<>>

NextSolve ==
    \/ SolveTurn(1)
    \/ SolveRecv(1)
    \/ NmEnter(1)
    \/ NmNext(1)
    \/ NmRecv(1)

\* The thread that called solve keeps running.
SpecSolve == InitSolve /\ [][NextSolve]_vars /\ WF_vars(NextSolve)


\* The games whose possible_moves also yields takes larger than the heap: a
\* Position that produces illegal moves.  They have one heap, so that a take
\* larger than the heap counts as a winning move.
ErrGames ==
    { [g EXCEPT !.overtake = TRUE] : g \in GamesFrom({ <<h, 0>> : h \in 1..ParHeap }) }

InitErr ==
    /\ game \in ErrGames
    /\ ParCall(game.first)

SpecErr == InitErr /\ [][NextPar]_vars

-----------------------------------------------------------------------------
(* Game::find_immediately_resolvable_game, the default implementation, on  *)
(* any position: what matters of the position is who is to move and, for   *)
(* each move in the order possible_moves yields them, whether make_move    *)
(* takes it and the state() of the board it leaves.                        *)

Playable == [tag |-> "Playable", winner |-> "-"]

Tie == [tag |-> "Tie", winner |-> "-"]

Win(pl) == [tag |-> "Win", winner |-> pl]

Players == {"One", "Two"}

\* Player::turn: the mover, as the board after the move names them.
turn(pl) == pl

Kids ==
    { [ok |-> TRUE, state |-> st] : st \in {Playable, Tie, Win("One"), Win("Two")} }
        \cup { [ok |-> FALSE, state |-> Playable] }

KidSeqs == UNION { [1..n -> Kids] : n \in 0..MaxKids }

None == 0

\* The match with a tied board kept only when nothing was kept before.
FirgMatch_TieIfNone(mover, best, st, i) ==
    IF st.tag = "Playable" THEN [return |-> FALSE, best |-> best]
    ELSE IF st.winner = turn(mover) /\ st.tag = "Win" THEN [return |-> TRUE, best |-> best]
    ELSE IF best = None THEN [return |-> FALSE, best |-> i]
    ELSE [return |-> FALSE, best |-> best]

\* The match on new_self.state(): whether the loop returns this board, and
\* the best non-winning board so far (an index into the moves, or None).
FirgMatch(mover, best, st, i) ==
    IF st.tag = "Playable" THEN [return |-> FALSE, best |-> best]
    ELSE IF st.tag = "Tie" THEN [return |-> FALSE, best |-> i]
    ELSE IF st.winner = turn(mover) THEN [return |-> TRUE, best |-> best]
    ELSE IF best = None THEN [return |-> FALSE, best |-> i]
    ELSE [return |-> FALSE, best |-> best]

InitFirg ==
    /\ \E ks \in KidSeqs, pl \in Players :
          firg = [kids |-> ks, mover |-> pl, i |-> 1, best |-> None, pc |-> "loop",
                  err |-> FALSE, some |-> None]
    /\ game = <<>> /\ table = EmptyTable
    /\ nsolves = 0 /\ last = <<>> /\ scores = <<>>
    /\ stack = Idle /\ ret = Idle /\ out = Idle /\ returned = Idle /\ failed = Idle
    /\ flipped = FALSE /\ root = <<>>

\* One turn of the loop over possible_moves.
FirgMove ==
    /\ firg.pc = "loop"
    /\ firg.i <= Len(firg.kids)
    /\ LET kid == firg.kids[firg.i]
           m == FirgMatch(firg.mover, firg.best, kid.state, firg.i)
       IN  firg' = IF ~kid.ok
                   THEN [firg EXCEPT !.pc = "done", !.err = TRUE]
                   ELSE IF m.return
                   THEN [firg EXCEPT !.pc = "done", !.some = firg.i]
                   ELSE [firg EXCEPT !.i = @ + 1, !.best = m.best]
    /\ UNCHANGED <<game, table, nsolves, last, scores, stack, ret, out, returned,
                   flipped, failed, root>>

\* After the loop: Ok(best_non_winning_game).
FirgEnd ==
    /\ firg.pc = "loop"
    /\ firg.i > Len(firg.kids)
    /\ firg' = [firg EXCEPT !.pc = "done", !.some = firg.best]
    /\ UNCHANGED <<game, table, nsolves, last, scores, stack, ret, out, returned,
                   flipped, failed, root>>

NextFirg == FirgMove \/ FirgEnd

SpecFirg == InitFirg /\ [][NextFirg]_vars

-----------------------------------------------------------------------------
(* The exact game value, by the unpruned recursion: 0 for a draw; the      *)
(* score of the child a winning move reaches; otherwise the largest        *)
(* negated child value.  A position that is lost already (no move, no      *)
(* draw) has no child to take the maximum over and is given the bottom of  *)
(* the score range.                                                        *)

Max(S) == CHOOSE x \in S : \A y \in S : y <= x

RECURSIVE RefValue(_)
RefValue(p) ==
    LET ms == possible_moves(p)
        wins == {i \in 1..Len(ms) : is_winning_move(p, ms[i])}
    IN  IF is_draw(p) THEN 0
        ELSE IF wins # {} THEN Max({score(Applied(p, ms[i])) : i \in wins})
        ELSE IF Len(ms) = 0 THEN min_score
        ELSE Max({0 - RefValue(Applied(p, ms[i])) : i \in 1..Len(ms)})

\* The position has to be searched: it is no draw, has moves, none winning.
Searched(p) == ~is_draw(p) /\ ~HasWinningMove(p) /\ Len(possible_moves(p)) > 0

-----------------------------------------------------------------------------
(* Claims about one caller and its table (specification Spec). *)

\* C1: solve started on an empty table returns the exact game value of the
\* position, the value of the unpruned reference recursion.
C1_SolveIsExact ==
    (last # <<>> /\ last[1].fresh) => last[1].r = RefValue(last[1].pos)

\* C1 witness: a solve on an empty table of a position that had to be searched
\* two plies deep, with a value that is not 0.
C1_Witness ==
    /\ last # <<>> /\ last[1].fresh
    /\ Searched(last[1].pos)
    /\ \E i \in 1..Len(possible_moves(last[1].pos)) :
          Searched(Applied(last[1].pos, possible_moves(last[1].pos)[i]))
    /\ last[1].r # 0

\* C3: solve returns for a position what it returns for it on an empty table,
\* whatever entries earlier calls on the same game left in the table.
C3_TableIndependent ==
    last # <<>> => last[1].r = solve(last[1].pos, EmptyTable).r

\* C3 witness: a solve of a searched position whose table already held entries
\* for other positions below it, left by an earlier call.
C3_Witness ==
    /\ last # <<>> /\ ~last[1].fresh /\ last[1].warm
    /\ Searched(last[1].pos)
    /\ last[1].r # 0

\* C5: whatever the table held, solve's value lies in
\* [-upper_bound, upper_bound].
C5_ScoreInRange ==
    last # <<>> => (0 - upper_bound <= last[1].r /\ last[1].r <= upper_bound)

\* C5 witness: a solve on a table earlier calls filled returns the lowest
\* score of the range.
C5_Witness ==
    /\ last # <<>> /\ ~last[1].fresh
    /\ last[1].r = 0 - upper_bound
    /\ upper_bound > 0

\* The one-pile game of C7: 3 tokens, one token a move, Normal play,
\* max_moves = 3.
IsNim3 ==
    /\ game.first = Pos(3, 0, 0) /\ game.takes = {1}
    /\ ~game.tie /\ game.max_moves = 3

-----------------------------------------------------------------------------
(* Claims about the workers of par_move_scores (specification SpecPar). *)

AllDone == \A w \in Workers : out[w] # <<>>

ParPairs ==
    { [m |-> possible_moves(root)[w], score |-> out[w][1].score] : w \in Workers }

Sound(e) ==
    IF e.kind = "LowerBound" THEN RefValue(e.pos) >= e.v ELSE RefValue(e.pos) <= e.v

Clip(v, lo, hi) == IF v < lo THEN lo ELSE IF v > hi THEN hi ELSE v

\* C9, as stated: negamax returns the exact value clipped to [alpha, beta].
C9_AsStated ==
    \A w \in Workers :
        (returned[w] # <<>> /\ returned[w][1].a0 < returned[w][1].b0) =>
            LET c == returned[w][1] IN
            /\ c.a0 <= c.r /\ c.r <= c.b0
            /\ c.r = Clip(RefValue(c.pos), c.a0, c.b0)

\* C9, amended: every window negamax is called with has width one, and what
\* it returns bounds the exact value v on the side of the window it falls
\* on: r <= alpha means v <= r, and r >= beta means v >= r.  r itself may lie
\* outside the window.
C9_ReturnBoundsValue ==
    \A w \in Workers :
        (returned[w] # <<>> /\ returned[w][1].a0 < returned[w][1].b0) =>
            LET c == returned[w][1]
                v == RefValue(c.pos)
            IN  /\ c.b0 = c.a0 + 1
                /\ c.r <= c.a0 => v <= c.r
                /\ c.r >= c.b0 => v >= c.r

\* C9 witness: negamax has returned, from a position it had to search, a
\* value outside its window.
C9_Witness ==
    \E w \in Workers :
        /\ returned[w] # <<>>
        /\ Searched(returned[w][1].pos)
        /\ \/ returned[w][1].r < returned[w][1].a0
           \/ returned[w][1].r > returned[w][1].b0

SolveFrames(w) == { stack[w][j] : j \in {k \in 1..Len(stack[w]) : stack[w][k].fn = "solve"} }

\* Every turn of solve's loop has left a narrower range than it found.
Shrinks ==
    \A w \in Workers : \A f \in SolveFrames(w) :
        f.i > 0 => f.beta - f.alpha < f.b0 - f.a0

SolveDone == stack[1] = <<>> /\ ret[1] # <<>>

\* C10: solve returns: every turn of its loop strictly shrinks beta - alpha,
\* every negamax call comes back, and solve comes to its end.
C10_SolveTerminates == []Shrinks /\ <>SolveDone

\* C10 witness: a turn of solve's loop has closed the range, so that the loop
\* is left.
C10_Witness ==
    \E w \in Workers :
        /\ Running(w, "solve", {"loop"})
        /\ Top(w).i > 0
        /\ Top(w).alpha >= Top(w).beta
        /\ Searched(Top(w).pos)

-----------------------------------------------------------------------------
(* Claims about the failing moves (SpecErr) and the lookahead (SpecFirg). *)

\* C4: when a move application failed during a worker's search, what the
\* caller gets is an error, never a score.
C4_ErrorSurfaced ==
    \A w \in Workers : (failed[w] /\ out[w] # <<>>) => ~out[w][1].ok

KidsIn(S) == { i \in 1..Len(firg.kids) : firg.kids[i].state \in S }

\* C6: when every move applies, find_immediately_resolvable_game returns a
\* child the mover has won if there is one, else a tied child if there is
\* one, else a child the opponent has won if there is one, else None.
C6_LookaheadPriority ==
    (firg.pc = "done" /\ \A i \in 1..Len(firg.kids) : firg.kids[i].ok) =>
        LET won == KidsIn({Win(firg.mover)})
            tied == KidsIn({Tie})
            lost == KidsIn({Win(pl) : pl \in Players \ {firg.mover}})
        IN  /\ ~firg.err
            /\ IF won # {} THEN firg.some \in won
               ELSE IF tied # {} THEN firg.some \in tied
               ELSE IF lost # {} THEN firg.some \in lost
               ELSE firg.some = None

\* C6 witness: the lookahead has returned a tied child of a position that has
\* a lost child in front of it and another behind it.
C6_Witness ==
    /\ firg.pc = "done" /\ ~firg.err
    /\ \A i \in 1..Len(firg.kids) : firg.kids[i].ok
    /\ firg.some # None /\ firg.kids[firg.some].state = Tie
    /\ \E i, j \in 1..Len(firg.kids) :
          /\ i < firg.some /\ firg.some < j
          /\ firg.kids[i].state.tag = "Win" /\ firg.kids[j].state.tag = "Win"

=============================================================================
